---- MODULE Spec2Model ----
(***************************************************************************)
(* io-extra: shorthand constructors for io::Error (src/src/lib.rs) and the *)
(* context() function that attaches a message to an io::Error while        *)
(* keeping its kind and its cause chain (src/src/context.rs).              *)
(*                                                                         *)
(* An io::Error is a record with a `repr` field naming one of the four     *)
(* payload shapes of std (Os, Simple, SimpleMessage, Custom).  A boxed     *)
(* `dyn Error` is a record with a `type` field naming the concrete type    *)
(* behind the box.  Box is unique ownership, so a boxed cause is a nested  *)
(* value.  Strings are TLA+ strings; \o is concatenation.                  *)
(***************************************************************************)
EXTENDS Naturals, Sequences, FiniteSets, TLC

VARIABLES
    err,        \* the io::Error the caller currently owns (Absent before construction)
    base,       \* the io::Error first constructed, before any context()
    origin,     \* how `base` was constructed (constructor name, or the std route)
    msgs,       \* the messages attached so far, oldest first
    pc,         \* position of the running Display::fmt call: idle / chain / done
    alternate,  \* f.alternate() of the running fmt call
    buf,        \* what the running fmt call has written so far
    chain,      \* Chain.inner: the Successors iterator's `next` field
    yielded     \* the items Chain::next has returned during the running fmt call

vars == <<err, base, origin, msgs, pc, alternate, buf, chain, yielded>>

-----------------------------------------------------------------------------
(* Bounds of the model *)

MaxContexts == 3

MaxCauseDepth == 2

-----------------------------------------------------------------------------
(* Option<T> *)

None == [tag |-> "None"]

Some(x) == [tag |-> "Some", val |-> x]

-----------------------------------------------------------------------------
(* io::ErrorKind *)

\* The constructors of IoErrorExt, lib.rs:88-106.
CtorNames ==
    { "addr_in_use", "addr_not_available", "already_exists", "broken_pipe",
      "connection_aborted", "connection_refused", "connection_reset",
      "interrupted", "invalid_data", "invalid_input", "not_connected",
      "not_found", "out_of_memory", "permission_denied", "timed_out",
      "unexpected_eof", "unsupported", "would_block", "write_zero" }

\* A copy-paste slip in the constructor table.
CtorKindSlip(name) ==
    CASE name = "addr_in_use" -> "AddrInUse"
      [] name = "addr_not_available" -> "AddrNotAvailable"
      [] name = "already_exists" -> "AlreadyExists"
      [] name = "broken_pipe" -> "BrokenPipe"
      [] name = "connection_aborted" -> "ConnectionAborted"
      [] name = "connection_refused" -> "ConnectionRefused"
      [] name = "connection_reset" -> "ConnectionRefused"
      [] name = "interrupted" -> "Interrupted"
      [] name = "invalid_data" -> "InvalidData"
      [] name = "invalid_input" -> "InvalidInput"
      [] name = "not_connected" -> "NotConnected"
      [] name = "not_found" -> "NotFound"
      [] name = "out_of_memory" -> "OutOfMemory"
      [] name = "permission_denied" -> "PermissionDenied"
      [] name = "timed_out" -> "TimedOut"
      [] name = "unexpected_eof" -> "UnexpectedEof"
      [] name = "unsupported" -> "Unsupported"
      [] name = "would_block" -> "WouldBlock"
      [] name = "write_zero" -> "WriteZero"

\* `$name -> $kind` of the ctor! invocation.
CtorKind(name) ==
    CASE name = "addr_in_use" -> "AddrInUse"
      [] name = "addr_not_available" -> "AddrNotAvailable"
      [] name = "already_exists" -> "AlreadyExists"
      [] name = "broken_pipe" -> "BrokenPipe"
      [] name = "connection_aborted" -> "ConnectionAborted"
      [] name = "connection_refused" -> "ConnectionRefused"
      [] name = "connection_reset" -> "ConnectionReset"
      [] name = "interrupted" -> "Interrupted"
      [] name = "invalid_data" -> "InvalidData"
      [] name = "invalid_input" -> "InvalidInput"
      [] name = "not_connected" -> "NotConnected"
      [] name = "not_found" -> "NotFound"
      [] name = "out_of_memory" -> "OutOfMemory"
      [] name = "permission_denied" -> "PermissionDenied"
      [] name = "timed_out" -> "TimedOut"
      [] name = "unexpected_eof" -> "UnexpectedEof"
      [] name = "unsupported" -> "Unsupported"
      [] name = "would_block" -> "WouldBlock"
      [] name = "write_zero" -> "WriteZero"

\* The kinds imported at lib.rs:29-34, and the two std gives to errors that
\* fit none of them.
Kinds == { CtorKind(n) : n \in CtorNames } \cup { "Uncategorized", "Other" }

\* kind.to_string() (context.rs:13): std's fixed description of each kind.
Description(kind) ==
    CASE kind = "AddrInUse" -> "address in use"
      [] kind = "AddrNotAvailable" -> "address not available"
      [] kind = "AlreadyExists" -> "entity already exists"
      [] kind = "BrokenPipe" -> "broken pipe"
      [] kind = "ConnectionAborted" -> "connection aborted"
      [] kind = "ConnectionRefused" -> "connection refused"
      [] kind = "ConnectionReset" -> "connection reset"
      [] kind = "Interrupted" -> "operation interrupted"
      [] kind = "InvalidData" -> "invalid data"
      [] kind = "InvalidInput" -> "invalid input parameter"
      [] kind = "NotConnected" -> "not connected"
      [] kind = "NotFound" -> "entity not found"
      [] kind = "OutOfMemory" -> "out of memory"
      [] kind = "PermissionDenied" -> "permission denied"
      [] kind = "TimedOut" -> "timed out"
      [] kind = "UnexpectedEof" -> "unexpected end of file"
      [] kind = "Unsupported" -> "unsupported"
      [] kind = "WouldBlock" -> "operation would block"
      [] kind = "WriteZero" -> "write zero"
      [] kind = "Uncategorized" -> "uncategorized error"
      [] kind = "Other" -> "other error"

-----------------------------------------------------------------------------
(* Raw OS error codes, as io::Error::from_raw_os_error (context.rs:19) sees them *)

OsCodes == {2, 5, 13}

\* The kind std decodes from a raw OS code; e.kind() of an Os error.
DecodeErrorKind(code) ==
    CASE code = 2 -> "NotFound"
      [] code = 13 -> "PermissionDenied"
      [] OTHER -> "Uncategorized"

\* The platform's text for a raw OS code.
OsErrorString(code) ==
    CASE code = 2 -> "No such file or directory"
      [] code = 13 -> "Permission denied"
      [] OTHER -> "Input/output error"

-----------------------------------------------------------------------------
(* io::Error values *)

Absent == [repr |-> "Absent"]

FromRawOsErrorValue(code) == [repr |-> "Os", code |-> code]

FromKindValue(kind) == [repr |-> "Simple", kind |-> kind]

ConstErrorValue(kind, message) ==
    [repr |-> "SimpleMessage", kind |-> kind, message |-> message]

\* io::Error::new(kind, error): the Custom payload owning the boxed error.
IoErrorNew(kind, error) == [repr |-> "Custom", kind |-> kind, error |-> error]

\* e.kind()
Kind(e) == IF e.repr = "Os" THEN DecodeErrorKind(e.code) ELSE e.kind

\* e.raw_os_error()
RawOsError(e) == IF e.repr = "Os" THEN Some(e.code) ELSE None

\* e.into_inner()
IntoInner(e) == IF e.repr = "Custom" THEN Some(e.error) ELSE None

-----------------------------------------------------------------------------
(* Boxed dyn Error values *)

\* What &str converts into as Box<dyn Error + Send + Sync>.
StringError(text) == [type |-> "StringError", text |-> text]

\* A caller's own error type, with its own optional source.
External(text, source) == [type |-> "External", text |-> text, source |-> source]

\* context.rs:35
SimpleMessage(text) == [type |-> "SimpleMessage", text |-> text]

\* context.rs:44-47
ContextNode(context, source) ==
    [type |-> "Context", context |-> context, source |-> source]

\* An io::Error boxed as a dyn Error.
BoxedIoError(e) == [type |-> "IoError", inner |-> e]

RECURSIVE ToStringObj(_)
\* `{}` of a boxed error: Display::fmt without the alternate flag.
ToStringObj(o) ==
    CASE o.type = "Context" -> o.context
      [] o.type = "IoError" ->
            ( CASE o.inner.repr = "Os" ->
                     OsErrorString(o.inner.code) \o " (os error "
                        \o ToString(o.inner.code) \o ")"
                [] o.inner.repr = "Simple" -> Description(o.inner.kind)
                [] o.inner.repr = "SimpleMessage" -> o.inner.message
                [] o.inner.repr = "Custom" -> ToStringObj(o.inner.error) )
      [] OTHER -> o.text

\* e.to_string() of an io::Error.
ToStringIo(e) == ToStringObj(BoxedIoError(e))

RECURSIVE SourceObj(_)
\* Error::source of a boxed error.
SourceObj(o) ==
    CASE o.type = "Context" -> o.source
      [] o.type = "External" -> o.source
      [] o.type = "IoError" ->
            IF o.inner.repr = "Custom" THEN SourceObj(o.inner.error) ELSE None
      [] OTHER -> None

-----------------------------------------------------------------------------
(* context(), context.rs:8-32 *)

\* A wrapper that forgets the kind it was given.
ContextKindOther(e) == "Other"

\* let kind = e.kind();
ContextKind(e) == Kind(e)

\* A comparison that never recognises the default text.
IsDefaultTextNever(stringified, kind) == FALSE

\* stringified == kind.to_string()
IsDefaultText(stringified, kind) == stringified = Description(kind)

\* A Custom arm that re-renders the cause instead of moving it.
SourceOfCustomRendered(source) == Some(SimpleMessage(ToStringObj(source)))

\* (_, _, Some(source)) => Some(source)
SourceOfCustom(source) == Some(source)

\* An Os arm that keeps the kind's text instead of the code.
SourceOfOsKindText(code) == Some(SimpleMessage(Description(DecodeErrorKind(code))))

\* (Some(code), _, None) => Some(Box::new(io::Error::from_raw_os_error(code)))
SourceOfOs(code) == Some(BoxedIoError(FromRawOsErrorValue(code)))

\* (None, true, None) => None
SourceOfSimple == None

\* A SimpleMessage arm that drops the message.
SourceOfSimpleMessageDropped(stringified) == None

\* (None, false, None) => Some(Box::new(SimpleMessage(stringified)))
SourceOfSimpleMessage(stringified) == Some(SimpleMessage(stringified))

\* The match of context.rs:11-24, arms tried in the order written.
ContextSource(e, stringified, kind) ==
    LET raw == RawOsError(e)
        same == IsDefaultText(stringified, kind)
        inner == IntoInner(e)
    IN  CASE inner.tag = "Some" -> SourceOfCustom(inner.val)
          [] inner.tag = "None" /\ raw.tag = "Some" -> SourceOfOs(raw.val)
          [] inner.tag = "None" /\ raw.tag = "None" /\ same -> SourceOfSimple
          [] inner.tag = "None" /\ raw.tag = "None" /\ ~same ->
                SourceOfSimpleMessage(stringified)

\* A wrapper that boxes the message itself instead of a Context.
contextBare(e, ctx) == IoErrorNew(ContextKind(e), StringError(ctx))

\* pub fn context(e: io::Error, context: impl fmt::Display) -> io::Error
context(e, ctx) ==
    LET kind == ContextKind(e)
        stringified == ToStringIo(e)
        source == ContextSource(e, stringified, kind)
    IN  IoErrorNew(kind, ContextNode(ctx, source))

-----------------------------------------------------------------------------
(* Display for Context and the Chain iterator, context.rs:56-89 *)

\* A formatter check that always takes the chain branch.
WritesChainAlways(alt) == TRUE

\* if f.alternate()
WritesChain(alt) == alt

\* A different joining text.
SeparatorComma == ", "

\* The literal in write!(f, ": {}", parent)
Separator == ": "

\* Chain::new(root): iter::successors(root, ..) starts with next = root.
ChainNew(root) == root

\* A successor closure that does not advance.
SuccessorSelf(e) == Some(e)

\* |e| (*e).source()
Successor(e) == SourceObj(e)

-----------------------------------------------------------------------------
(* Inputs *)

Messages == {"a", "b", "c", "ctx"}

RECURSIVE ExternalChain(_)
\* A caller's error whose cause chain is d errors long, itself included.
ExternalChain(d) ==
    External("cause level " \o ToString(d),
             IF d = 1 THEN None ELSE Some(ExternalChain(d - 1)))

\* What callers hand to the constructors: strings and their own errors.
Causes ==
    { StringError("root cause"), StringError("entity not found") }
        \cup { ExternalChain(d) : d \in 1..MaxCauseDepth }

\* The message-only errors std itself returns (a fixed text and a kind).
ConstErrors ==
    { ConstErrorValue("UnexpectedEof", "failed to fill whole buffer"),
      ConstErrorValue("NotFound", "entity not found") }

-----------------------------------------------------------------------------
(* The state machine *)

Init ==
    /\ err = Absent
    /\ base = Absent
    /\ origin = [by |-> "none"]
    /\ msgs = <<>>
    /\ pc = "idle"
    /\ alternate = FALSE
    /\ buf = ""
    /\ chain = None
    /\ yielded = <<>>

fmtVars == <<pc, alternate, buf, chain, yielded>>

\* One of the constructors the ctor! macro generates: io::Error::new($kind, error).
Ctor(name, cause) ==
    /\ err = Absent
    /\ err' = IoErrorNew(CtorKind(name), cause)
    /\ base' = err'
    /\ origin' = [by |-> "ctor", name |-> name, cause |-> cause]
    /\ UNCHANGED <<msgs, fmtVars>>

\* An error that arrives from the OS.
FromRawOsError(code) ==
    /\ err = Absent
    /\ err' = FromRawOsErrorValue(code)
    /\ base' = err'
    /\ origin' = [by |-> "from_raw_os_error"]
    /\ UNCHANGED <<msgs, fmtVars>>

\* An error made from a bare kind.
FromKind(kind) ==
    /\ err = Absent
    /\ err' = FromKindValue(kind)
    /\ base' = err'
    /\ origin' = [by |-> "from_kind"]
    /\ UNCHANGED <<msgs, fmtVars>>

\* A message-only error of std.
ConstError(e) ==
    /\ err = Absent
    /\ err' = e
    /\ base' = err'
    /\ origin' = [by |-> "const_error"]
    /\ UNCHANGED <<msgs, fmtVars>>

\* The free function context(e, msg).
Context(msg) ==
    /\ err /= Absent
    /\ pc = "idle"
    /\ Len(msgs) < MaxContexts
    /\ err' = context(err, msg)
    /\ msgs' = Append(msgs, msg)
    /\ UNCHANGED <<base, origin, fmtVars>>

\* IoErrorExt::context(self, msg): context(self.into(), msg).
MethodContext(msg) ==
    /\ err /= Absent
    /\ pc = "idle"
    /\ Len(msgs) < MaxContexts
    /\ err' = context(err, msg)
    /\ msgs' = Append(msgs, msg)
    /\ UNCHANGED <<base, origin, fmtVars>>

\* IoErrorExt::io_context(self, msg): self.context(msg).
IoContext(msg) ==
    /\ err /= Absent
    /\ pc = "idle"
    /\ Len(msgs) < MaxContexts
    /\ err' = context(err, msg)
    /\ msgs' = Append(msgs, msg)
    /\ UNCHANGED <<base, origin, fmtVars>>

\* Display::fmt of the error the caller holds, `{}` (alt = FALSE) or `{:#}`.
\* io::Error hands the formatter to its Custom payload; a Context writes its
\* message and, when asked for the alternate form, starts walking its sources.
Fmt(alt) ==
    /\ err /= Absent
    /\ pc = "idle"
    /\ alternate' = alt
    /\ yielded' = <<>>
    /\ IF err.repr = "Custom" /\ err.error.type = "Context"
       THEN /\ buf' = err.error.context
            /\ IF WritesChain(alt)
               THEN /\ pc' = "chain"
                    /\ chain' = ChainNew(SourceObj(err.error))
               ELSE /\ pc' = "done"
                    /\ chain' = None
       ELSE /\ buf' = ToStringIo(err)
            /\ pc' = "done"
            /\ chain' = None
    /\ UNCHANGED <<err, base, origin, msgs>>

\* One turn of `for parent in Chain::new(..)`: Chain::next takes the pending
\* item and computes its successor; the body writes ": {parent}".  When
\* nothing is pending the loop ends and fmt returns Ok(()).
ChainNext ==
    /\ pc = "chain"
    /\ IF chain.tag = "Some"
       THEN /\ yielded' = Append(yielded, chain.val)
            /\ chain' = Successor(chain.val)
            /\ buf' = buf \o Separator \o ToStringObj(chain.val)
            /\ pc' = "chain"
       ELSE /\ pc' = "done"
            /\ UNCHANGED <<yielded, chain, buf>>
    /\ UNCHANGED <<err, base, origin, msgs, alternate>>

\* The caller drops the formatted text.
FmtReturn ==
    /\ pc = "done"
    /\ pc' = "idle"
    /\ alternate' = FALSE
    /\ buf' = ""
    /\ chain' = None
    /\ yielded' = <<>>
    /\ UNCHANGED <<err, base, origin, msgs>>

Next ==
    \/ \E name \in CtorNames, cause \in Causes : Ctor(name, cause)
    \/ \E code \in OsCodes : FromRawOsError(code)
    \/ \E kind \in Kinds : FromKind(kind)
    \/ \E e \in ConstErrors : ConstError(e)
    \/ \E msg \in Messages : Context(msg)
    \/ \E msg \in Messages : MethodContext(msg)
    \/ \E msg \in Messages : IoContext(msg)
    \/ \E alt \in BOOLEAN : Fmt(alt)
    \/ ChainNext
    \/ FmtReturn

Spec == Init /\ [][Next]_vars

-----------------------------------------------------------------------------
(* Vocabulary of the properties *)

\* fmt has returned; `verbose` tells which form was asked for.
Displayed(verbose) == pc = "done" /\ alternate = verbose

\* The error has no structured cause and no OS code, and reads as its kind's
\* default text.
ReadsAsDefault(e) ==
    /\ e.repr \in {"Simple", "SimpleMessage"}
    /\ ToStringIo(e) = Description(Kind(e))

RECURSIVE JoinNewestFirst(_)
\* The messages, newest first, joined by ": ".
JoinNewestFirst(s) ==
    IF Len(s) = 1
    THEN s[1]
    ELSE s[Len(s)] \o ": " \o JoinNewestFirst(SubSeq(s, 1, Len(s) - 1))

RECURSIVE FurtherCauses(_)
\* ": " and the text of every cause below o, nearest first.
FurtherCauses(o) ==
    IF SourceObj(o).tag = "None"
    THEN ""
    ELSE ": " \o ToStringObj(SourceObj(o).val) \o FurtherCauses(SourceObj(o).val)

RECURSIVE CauseLen(_)
\* How many errors the cause chain starting at o holds, o included.
CauseLen(o) ==
    IF SourceObj(o).tag = "None" THEN 1 ELSE 1 + CauseLen(SourceObj(o).val)

\* What the base error leaves behind the messages in the verbose display.
BaseTail(b) ==
    CASE ReadsAsDefault(b) -> ""
      [] b.repr = "Custom" -> ": " \o ToStringIo(b) \o FurtherCauses(b.error)
      [] OTHER -> ": " \o ToStringIo(b)

\* How many links the base error contributes to the chain of a wrapped error.
BaseLinks(b) ==
    CASE ReadsAsDefault(b) -> 0
      [] b.repr = "Custom" -> CauseLen(b.error)
      [] OTHER -> 1

\* The kind each constructor's name spells.
DenotedKind ==
    [ addr_in_use |-> "AddrInUse", addr_not_available |-> "AddrNotAvailable",
      already_exists |-> "AlreadyExists", broken_pipe |-> "BrokenPipe",
      connection_aborted |-> "ConnectionAborted",
      connection_refused |-> "ConnectionRefused",
      connection_reset |-> "ConnectionReset", interrupted |-> "Interrupted",
      invalid_data |-> "InvalidData", invalid_input |-> "InvalidInput",
      not_connected |-> "NotConnected", not_found |-> "NotFound",
      out_of_memory |-> "OutOfMemory", permission_denied |-> "PermissionDenied",
      timed_out |-> "TimedOut", unexpected_eof |-> "UnexpectedEof",
      unsupported |-> "Unsupported", would_block |-> "WouldBlock",
      write_zero |-> "WriteZero" ]

RECURSIVE ContextSpine(_, _)
\* node and the nodes below it are Context nodes carrying the messages s,
\* newest on top, each holding the previous one as its source.
ContextSpine(node, s) ==
    /\ node.type = "Context"
    /\ node.context = s[Len(s)]
    /\ Len(s) > 1 =>
          /\ node.source.tag = "Some"
          /\ ContextSpine(node.source.val, SubSeq(s, 1, Len(s) - 1))

-----------------------------------------------------------------------------
(* C1: category preservation.  Whatever the base error's payload, and       *)
(* however many contexts have been attached, the error's kind is the kind   *)
(* of the base error.                                                       *)
C1_CategoryPreserved == err /= Absent => Kind(err) = Kind(base)

C1_Witness ==
    /\ Len(msgs) >= 3
    /\ base = FromRawOsErrorValue(13)
    /\ Kind(err) = "PermissionDenied"

(* C2: summary stability.  The `{}` display of an error returned by         *)
(* context() is exactly the message attached last.                          *)
C2_SummaryIsMessage ==
    (Displayed(FALSE) /\ Len(msgs) >= 1) => buf = msgs[Len(msgs)]

C2_Witness ==
    /\ Displayed(FALSE)
    /\ msgs = <<"a", "b", "c">>
    /\ base = IoErrorNew("InvalidData", ExternalChain(2))
    /\ buf = "c"

(* C3 as stated: after three attachments the verbose display is the three   *)
(* messages newest first, each followed by ": ", and then the base error's  *)
(* display text, for every base error.                                      *)
C3_AlwaysEndsWithBaseText ==
    (Displayed(TRUE) /\ Len(msgs) = 3) =>
        buf = msgs[3] \o ": " \o msgs[2] \o ": " \o msgs[1] \o ": "
                \o ToStringIo(base)

(* C3, amended: the verbose display is the messages newest first joined by  *)
(* ": ", followed by ": " and the base error's text and then ": " and the   *)
(* text of each further cause of the base's structured cause; a base error  *)
(* that reads as its kind's default text adds nothing.                      *)
C3_ChainOrder ==
    (Displayed(TRUE) /\ Len(msgs) >= 1) =>
        buf = JoinNewestFirst(msgs) \o BaseTail(base)

C3_Witness ==
    /\ Displayed(TRUE)
    /\ msgs = <<"a", "b", "c">>
    /\ base = IoErrorNew("TimedOut", StringError("root cause"))
    /\ buf = "c: b: a: root cause"

(* C4: structured-cause passthrough.  Wrapping an error that holds a boxed  *)
(* cause makes that very object the source of the new Context node, also    *)
(* when its text equals the kind's default text; with the cause "root       *)
(* cause" the verbose display is the message, ": " and "root cause".        *)
C4_Passthrough ==
    (Len(msgs) = 1 /\ base.repr = "Custom") =>
        /\ err.error.type = "Context"
        /\ err.error.source = Some(base.error)
        /\ (Displayed(TRUE) /\ base.error = StringError("root cause")) =>
              buf = msgs[1] \o ": root cause"

C4_Witness ==
    /\ Displayed(TRUE)
    /\ msgs = <<"ctx">>
    /\ base = IoErrorNew("NotFound", StringError("entity not found"))
    /\ err.error.source = Some(StringError("entity not found"))
    /\ buf = "ctx: entity not found"

(* C5: OS-code preservation.  Wrapping an OS error makes the source of the  *)
(* new Context node a fresh io::Error of the same code, which displays as   *)
(* the original did and has no source; the verbose display is the message,  *)
(* ": " and the OS error's text.                                            *)
C5_OsCodePreserved ==
    (Len(msgs) = 1 /\ base.repr = "Os") =>
        /\ err.error.type = "Context"
        /\ err.error.source = Some(BoxedIoError(FromRawOsErrorValue(base.code)))
        /\ ToStringObj(err.error.source.val) = ToStringIo(base)
        /\ SourceObj(err.error.source.val) = None
        /\ Displayed(TRUE) =>
              buf = msgs[1] \o ": " \o OsErrorString(base.code) \o " (os error "
                      \o ToString(base.code) \o ")"

C5_Witness ==
    /\ Displayed(TRUE)
    /\ msgs = <<"ctx">>
    /\ base = FromRawOsErrorValue(13)
    /\ buf = "ctx: Permission denied (os error 13)"

(* C6: default-text collapse.  Wrapping an error with no structured cause   *)
(* and no OS code whose text is its kind's default text gives a Context     *)
(* node with no source; the verbose display is the message alone.           *)
C6_DefaultTextCollapses ==
    (Len(msgs) = 1 /\ ReadsAsDefault(base)) =>
        /\ err.error.type = "Context"
        /\ err.error.source = None
        /\ Displayed(TRUE) => buf = msgs[1]

C6_Witness ==
    /\ Displayed(TRUE)
    /\ msgs = <<"ctx">>
    /\ base = ConstErrorValue("NotFound", "entity not found")
    /\ buf = "ctx"

(* C7: no information loss.  Wrapping an error with no structured cause and *)
(* no OS code whose text M is not its kind's default text gives a Context   *)
(* node whose source is a SimpleMessage that displays M and has no source;  *)
(* the verbose display is the message, ": " and M.                          *)
C7_PlainMessageKept ==
    (Len(msgs) = 1 /\ base.repr \in {"Simple", "SimpleMessage"}
        /\ ~ReadsAsDefault(base)) =>
        /\ err.error.type = "Context"
        /\ err.error.source = Some(SimpleMessage(base.message))
        /\ ToStringObj(err.error.source.val) = base.message
        /\ SourceObj(err.error.source.val) = None
        /\ Displayed(TRUE) => buf = msgs[1] \o ": " \o base.message

C7_Witness ==
    /\ Displayed(TRUE)
    /\ msgs = <<"ctx">>
    /\ base = ConstErrorValue("UnexpectedEof", "failed to fill whole buffer")
    /\ buf = "ctx: failed to fill whole buffer"

(* C8 as stated: the named constructors are twenty, and each gives an error *)
(* of the kind its name spells, holding the supplied cause as its custom    *)
(* payload.                                                                 *)
C8_TwentyConstructors ==
    origin.by = "ctor" =>
        /\ Cardinality(CtorNames) = 20
        /\ Kind(base) = DenotedKind[origin.name]
        /\ IntoInner(base) = Some(origin.cause)

(* C8, amended: the named constructors are nineteen, and each gives an      *)
(* error of the kind its name spells, holding the supplied cause as its     *)
(* custom payload.                                                          *)
C8_NineteenConstructors ==
    /\ Cardinality(CtorNames) = 19
    /\ origin.by = "ctor" =>
          /\ Kind(base) = DenotedKind[origin.name]
          /\ base.repr = "Custom"
          /\ IntoInner(base) = Some(origin.cause)
          /\ RawOsError(base) = None

C8_Witness ==
    /\ origin.by = "ctor"
    /\ origin.name = "connection_reset"
    /\ err = IoErrorNew("ConnectionReset", StringError("root cause"))

(* C9: the traversal is finite.  While the verbose display walks the chain  *)
(* of a wrapped error, every item yielded is the source of the one before   *)
(* it (the first is the top node's source), no item is yielded twice, and   *)
(* the number yielded never exceeds the earlier contexts plus the links of  *)
(* the base error; when the walk ends it has yielded exactly that many, the *)
(* last one has no source, and nothing was yielded if the start was absent. *)
C9_TraversalFinite ==
    (pc \in {"chain", "done"} /\ alternate /\ Len(msgs) >= 1) =>
        /\ Len(yielded) <= Len(msgs) - 1 + BaseLinks(base)
        /\ \A i \in 1..Len(yielded) :
              Some(yielded[i]) =
                 IF i = 1 THEN SourceObj(err.error) ELSE SourceObj(yielded[i - 1])
        /\ \A i, j \in 1..Len(yielded) : i /= j => yielded[i] /= yielded[j]
        /\ pc = "done" =>
              /\ Len(yielded) = Len(msgs) - 1 + BaseLinks(base)
              /\ SourceObj(err.error) = None => yielded = <<>>
              /\ yielded /= <<>> => SourceObj(yielded[Len(yielded)]) = None

C9_Witness ==
    /\ Displayed(TRUE)
    /\ Len(msgs) = 3
    /\ base = IoErrorNew("BrokenPipe", ExternalChain(2))
    /\ Len(yielded) = 4
    /\ chain = None

(* C10: every error context() returns holds a Context node carrying the     *)
(* attached message as its custom payload and reports no raw OS code; each  *)
(* later attachment keeps the previous Context node as the source of the    *)
(* new one.                                                                 *)
C10_AlwaysContextNode ==
    Len(msgs) >= 1 =>
        /\ err.repr = "Custom"
        /\ RawOsError(err) = None
        /\ IntoInner(err).tag = "Some"
        /\ ContextSpine(err.error, msgs)

C10_Witness ==
    /\ msgs = <<"a", "b">>
    /\ base = FromRawOsErrorValue(13)
    /\ RawOsError(base) = Some(13)
    /\ RawOsError(err) = None
    /\ err.error.source.val.type = "Context"

====
